---- MODULE Spec2Model ----
(***************************************************************************)
(* mongoose-sequenceable: the Counter model (Counter.generate, the         *)
(* findOneAndUpdate/upsert allocation on the counters collection with its  *)
(* unique index) and the sequenceable validator attached to a String path. *)
(*                                                                         *)
(* JavaScript strings are sequences of one-character strings.  A           *)
(* JavaScript value is a record [kind, val]; `undefined` is a value of     *)
(* its own, so that an omitted option, an absent document field and the    *)
(* empty string stay distinct, as they are for lodash and for MongoDB.     *)
(***************************************************************************)
EXTENDS Integers, Sequences, FiniteSets, TLC

(* ------------------------------ bounds -------------------------------- *)
NumCallers == 2
MaxCalls == 3
MaxErrors == 1
MaxPasses == 2
\* the sequence values a formatted value is compared over
MaxSequence == 20
\* calls of sequenceable on one schema path
MaxSetups == 4

(* ------------------------- JavaScript values -------------------------- *)
Undefined == [kind |-> "undefined", val |-> <<>>]
Str(s) == [kind |-> "string", val |-> s]
Num(n) == [kind |-> "number", val |-> <<n>>]
\* a function that returns v whatever it is called with and bound to
Fn(v) == [kind |-> "function", val |-> <<v>>]
\* a function of the format options, the custom formatter of the test suite
FormatFn == [kind |-> "formatter", val |-> <<>>]
\* a function that returns a field of the instance it is bound to, as
\* function () { return this.category; } of the test suite
Method(field) == [kind |-> "method", val |-> <<field>>]
Null == [kind |-> "null", val |-> <<>>]
Bool(b) == [kind |-> "boolean", val |-> <<b>>]
Obj(o) == [kind |-> "object", val |-> <<o>>]

IsUndefined(v) == v.kind = "undefined"
IsFunction(v) == v.kind \in {"function", "formatter", "method"}
\* _.isEmpty on a string or undefined option
IsEmpty(v) == v.kind = "undefined" \/ (v.kind = "string" /\ v.val = <<>>)
\* lodash toString / Array.prototype.join: undefined reads as ''
ToChars(v) == IF v.kind = "string" THEN v.val ELSE <<>>
\* lodash baseToString, which _.startsWith applies to its target: value + ''
BaseToString(v) ==
  IF IsUndefined(v) THEN <<"u", "n", "d", "e", "f", "i", "n", "e", "d">>
  ELSE ToChars(v)

DigitChar(d) ==
  CASE d = 0 -> "0" [] d = 1 -> "1" [] d = 2 -> "2" [] d = 3 -> "3"
    [] d = 4 -> "4" [] d = 5 -> "5" [] d = 6 -> "6" [] d = 7 -> "7"
    [] d = 8 -> "8" [] d = 9 -> "9"

RECURSIVE NumberToString(_)
NumberToString(n) ==
  IF n < 0 THEN <<"-">> \o NumberToString(0 - n)
  ELSE IF n < 10 THEN <<DigitChar(n)>>
  ELSE NumberToString(n \div 10) \o <<DigitChar(n % 10)>>

StartsWith(s, target) ==
  /\ Len(target) <= Len(s)
  /\ SubSeq(s, 1, Len(target)) = target

(* ----------------------------- constants ------------------------------ *)
SEQUENCE_NAMESPACE == <<"S", "e", "q", "u", "e", "n", "c", "e">>
SEQUENCE_START == 1
SEQUENCE_INCREMENT == 1
SEQUENCE_LENGTH == 4
SEQUENCE_PAD == <<"0">>
SEQUENCE_SEPARATOR == <<>>
DEFAULT_VALUE == <<"s", "e", "q", "u", "e", "n", "c", "e">>
ModelName == <<"T", "i", "c", "k", "e", "t">>
OtherModelName == <<"I", "n", "v", "o", "i", "c", "e">>

\* the years the clock of the model runs through
FirstYear == 21
LastYear == 22
\* moment(new Date()).format(SEQUENCE_YEAR_FORMAT), SEQUENCE_YEAR_FORMAT = 'YY'
YearFormat(y) == NumberToString(y % 100)

VARIABLES
  store,      \* the counters collection: a set of documents
  ledger,     \* history: ledger[_id] = how many updates document _id took
              \* and the increments they applied
  year,       \* the current date, as far as format('YY') shows it
  pc,         \* per caller: where its generate call stands
  options,    \* per caller: the merged options of the running generate call
  cb,         \* per caller: the callback handed to Counter.generate
  res,        \* per caller: (error, counter) of the last findOneAndUpdate
  started,    \* history: how many calls had completed when this call
              \* began and how many updates the
              \* store applied for it
  issued,     \* history: the completed generate calls, in completion order
  calls,      \* number of generate calls that may still be begun
  errors,     \* number of store errors raised without a uniqueness cause
  schema,     \* the sequenceable options of the schema path
  doc,        \* per caller: this[pathName] of the caller's model instance
  valid,      \* per caller: what the validator resolved last
  passes,     \* per caller: number of validation passes begun
  modelName,  \* per caller: this.constructor.modelName of its instance
  path        \* the SchemaString of the sequenceable path: its validators,
              \* its sequenceableValidator and its defaultValue

vars == <<store, ledger, year, pc, options, cb, res, started, issued, calls,
          errors, schema, doc, valid, passes, modelName, path>>

callVars == <<pc, options, cb, res, started>>

\* the callers: one per concurrent client of the Counter model, each with a
\* model instance of its own
Callers == DOMAIN pc
instanceVars == <<schema, doc, valid, passes, modelName, path>>

(* --------------------------- Counter model ---------------------------- *)
\* a value that is no document (a null counter, a missing result)
NullDoc ==
  [_id |-> 0, namespace |-> Undefined, prefix |-> Undefined,
   suffix |-> Undefined, sequence |-> 0]

NoResult == [error |-> FALSE, counter |-> NullDoc, nth |-> 0, increments |-> {}]
ErrorResult == [error |-> TRUE, counter |-> NullDoc, nth |-> 0, increments |-> {}]
NoOptions ==
  [namespace |-> Undefined, prefix |-> Undefined, suffix |-> Undefined,
   increment |-> Undefined]

\* _.merge({}, defaults, optns): an undefined source value keeps the default
MergeValue(default, v) == IF IsUndefined(v) THEN default ELSE v

\* the merge without a default for the namespace
MergeOptions_noNamespace(optns, y) ==
  [namespace |-> optns.namespace,
   prefix |-> MergeValue(Str(YearFormat(y)), optns.prefix),
   suffix |-> optns.suffix,
   increment |-> MergeValue(Num(SEQUENCE_INCREMENT), optns.increment)]

\* generate: "ensure options"
MergeOptions(optns, y) ==
  [namespace |-> MergeValue(Str(SEQUENCE_NAMESPACE), optns.namespace),
   prefix |-> MergeValue(Str(YearFormat(y)), optns.prefix),
   suffix |-> optns.suffix,
   increment |-> MergeValue(Num(SEQUENCE_INCREMENT), optns.increment)]

\* _.omitBy({ namespace, prefix, suffix }, _.isUndefined)
Criteria(o) ==
  [f \in {g \in {"namespace", "prefix", "suffix"} : ~IsUndefined(o[g])} |-> o[f]]

\* the documents an equality filter selects; a field the filter omits is
\* not constrained
Matching(criteria) ==
  {d \in store : \A f \in DOMAIN criteria : d[f] = criteria[f]}

\* CounterSchema.index({namespace, prefix, suffix, sequence}, {unique: true})
IndexKey(d) == <<d.namespace, d.prefix, d.suffix, d.sequence>>
DuplicateKey(d, others) == \E o \in others : IndexKey(o) = IndexKey(d)

\* the update written with $set in place of $inc
Inc_set(d, increment) == [d EXCEPT !.sequence = increment]

\* { $inc: { sequence: increment } } on a matched document
Inc(d, increment) == [d EXCEPT !.sequence = @ + increment]

\* the inserted document, had the schema default of `sequence` been set
\* before $inc is applied
InsertDoc_withStart(criteria, increment, id) ==
  [_id |-> id,
   namespace |-> criteria.namespace,
   prefix |-> criteria.prefix,
   suffix |-> IF "suffix" \in DOMAIN criteria THEN criteria.suffix ELSE Undefined,
   sequence |-> SEQUENCE_START + increment]

\* the document an upsert inserts: the filter's equality fields and the
\* update applied to them.  setDefaultsOnInsert adds the schema default
\* only to a path that neither the filter nor the update names, so
\* `sequence`, named by $inc, starts from nothing and not from
\* SEQUENCE_START
InsertDoc(criteria, increment, id) ==
  [_id |-> id,
   namespace |-> criteria.namespace,
   prefix |-> criteria.prefix,
   suffix |-> IF "suffix" \in DOMAIN criteria THEN criteria.suffix ELSE Undefined,
   sequence |-> increment]

Key(o) == <<o.namespace, o.prefix, o.suffix>>
Increment(c) == options[c].increment.val[1]

\* Counter.generate(optns, done), up to the point where findOneAndUpdate is
\* handed to the store
BeginGenerate(c, optns, callback) ==
  /\ calls > 0
  /\ calls' = calls - 1
  /\ options' = [options EXCEPT ![c] = MergeOptions(optns, year)]
  /\ cb' = [cb EXCEPT ![c] = callback]
  /\ res' = [res EXCEPT ![c] = NoResult]
  /\ started' = [started EXCEPT ![c] = [after |-> Len(issued), applied |-> 0]]
  /\ pc' = [pc EXCEPT ![c] = "find"]

GenerateInputs ==
  {[namespace |-> Undefined, prefix |-> Undefined,
    suffix |-> Str(<<"T", "Z">>), increment |-> Undefined],
   [namespace |-> Undefined, prefix |-> Undefined,
    suffix |-> Str(<<"T", "Z">>), increment |-> Num(2)],
   [namespace |-> Undefined, prefix |-> Undefined,
    suffix |-> Undefined, increment |-> Undefined]}

\* a caller invokes the static Counter.generate directly
Generate(c) ==
  /\ pc[c] = "idle"
  /\ \E optns \in GenerateInputs : BeginGenerate(c, optns, "done")
  /\ UNCHANGED <<store, ledger, year, issued, errors, instanceVars>>

\* findOneAndUpdate, query phase: one matching document is updated in place
\* (a single-document update is atomic); with no match the upsert goes on
\* to insert, and other operations may run before it does
FindOneAndUpdate(c) ==
  /\ pc[c] = "find"
  /\ LET criteria == Criteria(options[c]) IN
     IF Matching(criteria) = {}
     THEN /\ pc' = [pc EXCEPT ![c] = "upsert"]
          /\ UNCHANGED <<store, ledger, res, started>>
     ELSE \E d \in Matching(criteria) :
            LET n == Inc(d, Increment(c)) IN
            /\ pc' = [pc EXCEPT ![c] = "exec"]
            /\ IF DuplicateKey(n, store \ {d})
               THEN /\ res' = [res EXCEPT ![c] = ErrorResult]
                    /\ UNCHANGED <<store, ledger, started>>
               ELSE /\ store' = (store \ {d}) \cup {n}
                    /\ ledger' = [ledger EXCEPT ![d._id] =
                                    [n |-> @.n + 1,
                                     increments |-> @.increments \cup {Increment(c)}]]
                    /\ started' = [started EXCEPT ![c].applied = @ + 1]
                    /\ res' = [res EXCEPT ![c] =
                                 [error |-> FALSE, counter |-> n,
                                  nth |-> ledger[d._id].n + 1,
                                  increments |->
                                    ledger[d._id].increments \cup {Increment(c)}]]
  /\ UNCHANGED <<year, options, cb, issued, calls, errors, instanceVars>>

\* findOneAndUpdate, insert phase of the upsert: the unique index rejects a
\* document whose (namespace, prefix, suffix, sequence) is already there
Upsert(c) ==
  /\ pc[c] = "upsert"
  /\ LET n == InsertDoc(Criteria(options[c]), Increment(c), Cardinality(store) + 1) IN
     IF DuplicateKey(n, store)
     THEN /\ res' = [res EXCEPT ![c] = ErrorResult]
          /\ UNCHANGED <<store, ledger, started>>
     ELSE /\ store' = store \cup {n}
          /\ ledger' = Append(ledger, [n |-> 1, increments |-> {Increment(c)}])
          /\ started' = [started EXCEPT ![c].applied = @ + 1]
          /\ res' = [res EXCEPT ![c] =
                       [error |-> FALSE, counter |-> n, nth |-> 1,
                        increments |-> {Increment(c)}]]
  /\ pc' = [pc EXCEPT ![c] = "exec"]
  /\ UNCHANGED <<year, options, cb, issued, calls, errors, instanceVars>>

\* the store fails the operation (write conflict, network): nothing is written
StoreError(c) ==
  /\ pc[c] \in {"find", "upsert"}
  /\ errors < MaxErrors
  /\ errors' = errors + 1
  /\ res' = [res EXCEPT ![c] = ErrorResult]
  /\ pc' = [pc EXCEPT ![c] = "exec"]
  /\ UNCHANGED <<store, ledger, year, options, cb, started, issued, calls,
                 instanceVars>>

\* a network error after the store applied the operation: the update or
\* the insert is in the collection and the reply never reaches exec
NetworkError(c) ==
  /\ pc[c] \in {"find", "upsert"}
  /\ errors < MaxErrors
  /\ errors' = errors + 1
  /\ \E d \in (IF pc[c] = "find" THEN Matching(Criteria(options[c]))
                ELSE {NullDoc}) :
       LET n == IF pc[c] = "find" THEN Inc(d, Increment(c))
                ELSE InsertDoc(Criteria(options[c]), Increment(c),
                               Cardinality(store) + 1)
       IN /\ ~DuplicateKey(n, store \ {d})
          /\ store' = (store \ {d}) \cup {n}
          /\ ledger' = IF pc[c] = "find"
                        THEN [ledger EXCEPT ![d._id] =
                                [n |-> @.n + 1,
                                 increments |-> @.increments \cup {Increment(c)}]]
                        ELSE Append(ledger, [n |-> 1, increments |-> {Increment(c)}])
  /\ started' = [started EXCEPT ![c].applied = @ + 1]
  /\ res' = [res EXCEPT ![c] = ErrorResult]
  /\ pc' = [pc EXCEPT ![c] = "exec"]
  /\ UNCHANGED <<year, options, cb, issued, calls, instanceVars>>

(* ------------------------ sequenceable validator ---------------------- *)
\* createPrefix(prefix) bound to the instance and called
CreatePrefix(prefix, y) ==
  IF IsFunction(prefix) THEN prefix.val[1]
  ELSE IF IsEmpty(prefix) THEN Str(YearFormat(y))
  ELSE prefix

\* createSuffix(suffix) bound to the instance and called
CreateSuffix(suffix) ==
  IF IsFunction(suffix) THEN suffix.val[1]
  ELSE IF IsEmpty(suffix) THEN Str(<<>>)
  ELSE suffix

\* the fields that the option functions of the test suite read from an
\* instance
This(c) ==
  IF c = 1 THEN [category |-> Str(<<"2">>), country |-> Str(<<"1">>)]
  ELSE [category |-> Str(<<"2", "1">>), country |-> Str(<<>>)]

\* _.bind(fn, this) with instance c as `this`
Bind(fn, c) == IF fn.kind = "method" THEN Fn(This(c)[fn.val[1]]) ELSE fn

\* a || b on an option that is a string or undefined
OrElse(v, default) == IF IsEmpty(v) THEN default ELSE v

RECURSIVE Repeat(_, _)
Repeat(chars, n) == IF n <= 0 THEN <<>> ELSE chars \o Repeat(chars, n - 1)

\* padding that ignores the pad option and fills with '0'
PadStart_zeros(string, length, chars) ==
  IF Len(string) >= length THEN string
  ELSE Repeat(<<"0">>, length - Len(string)) \o string

\* _.padStart(string, length, chars)
PadStart(string, length, chars) ==
  IF Len(string) >= length \/ chars = <<>> THEN string
  ELSE SubSeq(Repeat(chars, length - Len(string)), 1, length - Len(string))
         \o string

RECURSIVE Join(_, _)
\* Array.prototype.join over strings
Join(parts, separator) ==
  IF parts = <<>> THEN <<>>
  ELSE IF Len(parts) = 1 THEN parts[1]
  ELSE parts[1] \o separator \o Join(Tail(parts), separator)

\* the default formatter without the padding step
DoFormat_unpadded(o) ==
  Join(<<ToChars(o.prefix), NumberToString(o.sequence), ToChars(o.suffix)>>,
       o.separator)

\* doFormat: the default formatter
DoFormat(o) ==
  Join(<<ToChars(o.prefix),
         PadStart(NumberToString(o.sequence), o.length, o.pad),
         ToChars(o.suffix)>>, o.separator)

\* the custom formatter of the test suite: [prefix, sequence, day].join('-')
\* with day = date.format('MMDD'); the clock of the model shows 1 January of
\* the year o.date
CustomFormat(o) ==
  Join(<<ToChars(o.prefix), NumberToString(o.sequence),
         <<"0", "1", "0", "1">>>>, <<"-">>)

\* a validator that ignores the format option
Format_defaultOnly(format, o) == Str(DoFormat(o))

\* createFormat(format) applied to the format options: what the formatter
\* returns
Format(format, o) ==
  IF format.kind = "formatter" THEN Str(CustomFormat(o))
  ELSE IF format.kind = "function" THEN format.val[1]
  ELSE Str(DoFormat(o))

\* the validator without its early exit
IsSequence_never(v, prefix) == FALSE

\* the early exit without its test for the placeholder
IsSequence_prefixOnly(v, prefix) == StartsWith(ToChars(v), BaseToString(prefix))

\* "exit early if path has valid sequence"
IsSequence(v, prefix) ==
  /\ v # Str(DEFAULT_VALUE)
  /\ StartsWith(ToChars(v), BaseToString(prefix))

\* the validator keeping what it resolved in the options object that the
\* closure shares between invocations: options = _.merge({}, {namespace}, options)
SequenceValidator_shared(c) ==
  /\ pc[c] = "idle"
  /\ passes[c] < MaxPasses
  /\ passes' = [passes EXCEPT ![c] = @ + 1]
  /\ LET namespace == OrElse(schema.namespace, modelName[c])
         prefix == CreatePrefix(Bind(schema.prefix, c), year)
         suffix == CreateSuffix(Bind(schema.suffix, c))
         optns == [namespace |-> namespace, prefix |-> prefix,
                   suffix |-> suffix, increment |-> schema.increment]
     IN /\ schema' = [schema EXCEPT !.namespace = namespace]
        /\ IF IsSequence(doc[c], prefix)
           THEN /\ valid' = [valid EXCEPT ![c] = TRUE]
                /\ UNCHANGED <<callVars, calls>>
           ELSE /\ BeginGenerate(c, optns, "onSequence")
                /\ UNCHANGED valid
  /\ UNCHANGED <<store, ledger, year, issued, errors, doc, modelName, path>>

\* sequenceValidator(v): resolves true at once for a value that is a
\* sequence already, and calls Counter.generate otherwise
SequenceValidator(c) ==
  /\ pc[c] = "idle"
  /\ passes[c] < MaxPasses
  /\ passes' = [passes EXCEPT ![c] = @ + 1]
  /\ LET namespace == OrElse(schema.namespace, modelName[c])
         prefix == CreatePrefix(Bind(schema.prefix, c), year)
         suffix == CreateSuffix(Bind(schema.suffix, c))
         optns == [namespace |-> namespace, prefix |-> prefix,
                   suffix |-> suffix, increment |-> schema.increment]
     IN IF IsSequence(doc[c], prefix)
        THEN /\ valid' = [valid EXCEPT ![c] = TRUE]
             /\ UNCHANGED <<callVars, calls>>
        ELSE /\ BeginGenerate(c, optns, "onSequence")
             /\ UNCHANGED valid
  /\ UNCHANGED <<store, ledger, year, issued, errors, schema, doc, modelName, path>>

\* the options of the formatter that the validator resolves itself
Length == IF IsUndefined(schema.length) \/ schema.length.val[1] = 0
          THEN SEQUENCE_LENGTH ELSE schema.length.val[1]
Pad == ToChars(OrElse(schema.pad, Str(SEQUENCE_PAD)))
Separator == ToChars(OrElse(schema.separator, Str(SEQUENCE_SEPARATOR)))

\* onSequence formatting what the row holds when the callback runs, in
\* place of the counter it was called with
OnSequenceValue_reread(counter) ==
  IF counter._id # 0
  THEN LET row == CHOOSE d \in store : d._id = counter._id
       IN Format(schema.format,
                 [namespace |-> row.namespace,
                  prefix |-> row.prefix,
                  sequence |-> row.sequence,
                  suffix |-> row.suffix,
                  length |-> Length,
                  pad |-> Pad,
                  separator |-> Separator,
                  date |-> year])
  ELSE Undefined

\* onSequence(error, counter): what it assigns to this[pathName]
OnSequenceValue(counter) ==
  IF counter._id # 0
  THEN Format(schema.format,
              [namespace |-> counter.namespace,
               prefix |-> counter.prefix,
               sequence |-> counter.sequence,
               suffix |-> counter.suffix,
               length |-> Length,
               pad |-> Pad,
               separator |-> Separator,
               date |-> year])
  ELSE Undefined

\* history: the record of a call at the time its callback runs
Record(c) ==
  [caller |-> c, after |-> started[c].after, applied |-> started[c].applied,
   key |-> Key(options[c]), increment |-> Increment(c),
   counter |-> res[c].counter, nth |-> res[c].nth,
   increments |-> res[c].increments,
   value |-> IF cb[c] = "onSequence" THEN OnSequenceValue(res[c].counter)
             ELSE Undefined]

\* onSequence resolving true whatever the field holds
Done_alwaysValid(c) ==
  /\ pc' = [pc EXCEPT ![c] = "idle"]
  /\ issued' = Append(issued, Record(c))
  /\ IF cb[c] = "onSequence"
     THEN /\ doc' = [doc EXCEPT ![c] = OnSequenceValue(res[c].counter)]
          /\ valid' = [valid EXCEPT ![c] = TRUE]
     ELSE UNCHANGED <<doc, valid>>
  /\ UNCHANGED <<options, cb, res, started, calls>>

\* done(null, counter): the call ends and the callback runs
Done(c) ==
  /\ pc' = [pc EXCEPT ![c] = "idle"]
  /\ issued' = Append(issued, Record(c))
  /\ IF cb[c] = "onSequence"
     THEN /\ doc' = [doc EXCEPT ![c] = OnSequenceValue(res[c].counter)]
          /\ valid' = [valid EXCEPT ![c] =
                         ~IsEmpty(OnSequenceValue(res[c].counter))]
     ELSE UNCHANGED <<doc, valid>>
  /\ UNCHANGED <<options, cb, res, started, calls>>

\* a generator that gives up on a failed attempt: the call ends and no
\* callback runs
Retry_giveUp(c) ==
  /\ pc' = [pc EXCEPT ![c] = "idle"]
  /\ UNCHANGED <<options, res, cb, started, issued, calls, doc, valid>>

\* a retry that resolves the default prefix again, as a retry with the
\* caller's own optns would
Retry_resolveAgain(c) ==
  /\ options' = [options EXCEPT ![c].prefix = Str(YearFormat(year))]
  /\ res' = [res EXCEPT ![c] = NoResult]
  /\ pc' = [pc EXCEPT ![c] = "find"]
  /\ UNCHANGED <<cb, started, issued, calls, doc, valid>>

\* "loop till succeed": Counter.generate(options, done)
Retry(c) ==
  /\ options' = [options EXCEPT ![c] = MergeOptions(options[c], year)]
  /\ res' = [res EXCEPT ![c] = NoResult]
  /\ pc' = [pc EXCEPT ![c] = "find"]
  /\ UNCHANGED <<cb, started, issued, calls, doc, valid>>

\* the exec callback written without its `return`: done and retry both run
AfterFindOneAndUpdate_noReturn(c) ==
  /\ pc[c] = "exec"
  /\ IF ~res[c].error /\ res[c].counter._id # 0
     THEN /\ issued' = Append(issued, Record(c))
          /\ options' = [options EXCEPT ![c] = MergeOptions(options[c], year)]
          /\ res' = [res EXCEPT ![c] = NoResult]
          /\ pc' = [pc EXCEPT ![c] = "find"]
          /\ UNCHANGED <<cb, started, calls, doc, valid>>
     ELSE Retry(c)
  /\ UNCHANGED <<store, ledger, year, errors, schema, passes, modelName, path>>

\* the exec callback handing a failure on: done(error, counter)
AfterFindOneAndUpdate_deliver(c) ==
  /\ pc[c] = "exec"
  /\ Done(c)
  /\ UNCHANGED <<store, ledger, year, errors, schema, passes, modelName, path>>

\* afterFindOneAndUpdate(error, counter)
AfterFindOneAndUpdate(c) ==
  /\ pc[c] = "exec"
  /\ IF ~res[c].error /\ res[c].counter._id # 0
     THEN Done(c)
     ELSE Retry(c)
  /\ UNCHANGED <<store, ledger, year, errors, schema, passes, modelName, path>>

\* New Year: the date the defaults are computed from moves on
Tick ==
  /\ year < LastYear
  /\ year' = year + 1
  /\ UNCHANGED <<store, ledger, callVars, issued, calls, errors, instanceVars>>

\* MongooseError.messages.String.sequenceable, shortened
SequenceableMessage == <<"n", "o", "t", " ", "a", " ", "s", "e", "q", "u", "e", "n", "c", "e">>

\* an options object of sequenceable: the options of the generator and the
\* message
WithMessage(o, message) ==
  [f \in DOMAIN o \cup {"message"} |-> IF f = "message" THEN message ELSE o[f]]

\* const defaults = { pathName }: no option is set
DefaultOptions ==
  [namespace |-> Undefined, prefix |-> Undefined, suffix |-> Undefined,
   increment |-> Undefined, length |-> Undefined, pad |-> Undefined,
   separator |-> Undefined, format |-> Undefined, message |-> Undefined]

\* the validator functions are told apart by the order of their creation;
\* 0 is this.sequenceableValidator before any was created
NoValidator == [id |-> 0, options |-> DefaultOptions]

\* a String path as the schema constructs it, with or without the validator
\* of `required: true`
NewPath(required) ==
  [validators |->
     IF required
     THEN <<[validator |-> [id |-> 1, options |-> DefaultOptions],
             message |-> Str(<<"r", "e", "q", "u", "i", "r", "e", "d">>),
             type |-> "required"]>>
     ELSE <<>>,
   sequenceableValidator |-> NoValidator,
   defaultValue |-> Undefined,
   created |-> IF required THEN 1 ELSE 0]

\* sequenceable that pushes the new validator and leaves the old one in the
\* list
Sequenceable_keepOld(p, optns, message) ==
  LET shouldApply == optns.kind \notin {"null", "undefined"}
      opts == IF optns.kind = "boolean" THEN DefaultOptions ELSE optns.val[1]
      msg == OrElse(opts.message, OrElse(message, Str(SequenceableMessage)))
      v == [id |-> p.created + 1, options |-> opts]
  IN IF shouldApply
     THEN [validators |-> Append(p.validators,
                                 [validator |-> v, message |-> msg,
                                  type |-> "sequenceable"]),
           sequenceableValidator |-> v,
           defaultValue |-> Str(DEFAULT_VALUE),
           created |-> p.created + 1]
     ELSE [p EXCEPT !.defaultValue = Str(DEFAULT_VALUE)]

\* SchemaString.prototype.sequenceable(optns, message) on the path p
Sequenceable(p, optns, message) ==
  LET doFilter(v) == v.validator # p.sequenceableValidator
      validators == IF p.sequenceableValidator.id # 0
                    THEN SelectSeq(p.validators, doFilter)
                    ELSE p.validators
      shouldApply == optns.kind \notin {"null", "undefined"}
      opts == IF optns.kind = "boolean" THEN DefaultOptions ELSE optns.val[1]
      msg == OrElse(opts.message, OrElse(message, Str(SequenceableMessage)))
      v == [id |-> p.created + 1, options |-> opts]
  IN IF shouldApply
     THEN [validators |-> Append(validators,
                                 [validator |-> v, message |-> msg,
                                  type |-> "sequenceable"]),
           sequenceableValidator |-> v,
           defaultValue |-> Str(DEFAULT_VALUE),
           created |-> p.created + 1]
     ELSE [p EXCEPT !.validators = validators,
                    !.defaultValue = Str(DEFAULT_VALUE)]

\* what sequenceable may be called with
SequenceableInputs ==
  {Null, Undefined, Bool(TRUE), Bool(FALSE)}
    \cup {Obj(WithMessage(o, m)) :
            o \in [namespace : {Undefined}, prefix : {Undefined, Str(<<"V", "I", "P">>)},
                   suffix : {Undefined}, increment : {Undefined},
                   length : {Undefined}, pad : {Undefined},
                   separator : {Undefined}, format : {Undefined}],
            m \in {Undefined, Str(<<"m">>)}}

\* the schema calls sequenceable on the path once more
SetSequenceable ==
  /\ calls > 0
  /\ calls' = calls - 1
  /\ \E optns \in SequenceableInputs :
       \E message \in {Undefined, Str(<<"b", "a", "d">>)} :
         path' = Sequenceable(path, optns, message)
  /\ UNCHANGED <<store, ledger, year, callVars, issued, errors, schema, doc,
                 valid, passes, modelName>>

\* the path of a schema declared with the options o
Declared(o) == Sequenceable(NewPath(FALSE), Obj(WithMessage(o, Undefined)), Undefined)

(* --------------------------- specifications --------------------------- *)
NoSchema ==
  [namespace |-> Undefined, prefix |-> Undefined, suffix |-> Undefined,
   increment |-> Undefined, length |-> Undefined, pad |-> Undefined,
   separator |-> Undefined, format |-> Undefined]

\* the sequenceable options a schema path is declared with
Schemas ==
  [namespace : {Undefined},
   prefix : {Undefined, Fn(Str(<<"V">>))},
   suffix : {Undefined},
   increment : {Undefined, Num(10)},
   length : {Undefined},
   pad : {Undefined},
   separator : {Undefined},
   format : {Undefined, FormatFn}]

InitStore(callers, budget) ==
  /\ store = {}
  /\ ledger = <<>>
  /\ year = FirstYear
  /\ pc = [c \in callers |-> "idle"]
  /\ options = [c \in callers |-> NoOptions]
  /\ cb = [c \in callers |-> "done"]
  /\ res = [c \in callers |-> NoResult]
  /\ started = [c \in callers |-> [after |-> 0, applied |-> 0]]
  /\ issued = <<>>
  /\ calls = budget
  /\ errors = 0
  /\ doc = [c \in callers |-> Str(DEFAULT_VALUE)]
  /\ valid = [c \in callers |-> FALSE]
  /\ passes = [c \in callers |-> 0]

\* callers of the static Counter.generate
Init ==
  /\ InitStore(1 .. NumCallers, MaxCalls)
  /\ schema = NoSchema
  /\ path = Declared(schema)
  /\ modelName = [c \in DOMAIN pc |-> Str(ModelName)]

Next ==
  \/ \E c \in Callers : Generate(c)
  \/ \E c \in Callers : FindOneAndUpdate(c)
  \/ \E c \in Callers : Upsert(c)
  \/ \E c \in Callers : StoreError(c)
  \/ \E c \in Callers : AfterFindOneAndUpdate(c)

Spec == Init /\ [][Next]_vars

\* the same with one more caller and one more call
InitRace ==
  /\ InitStore(1 .. NumCallers + 1, MaxCalls + 1)
  /\ schema = NoSchema
  /\ path = Declared(schema)
  /\ modelName = [c \in DOMAIN pc |-> Str(ModelName)]

SpecRace == InitRace /\ [][Next]_vars

\* the store answers every operation handed to it and the event loop runs
\* every callback that is due; when a caller calls generate, and whether the
\* store fails an operation, is up to the environment
Fairness ==
  \A c \in 1 .. NumCallers :
    /\ WF_vars(FindOneAndUpdate(c))
    /\ WF_vars(Upsert(c))
    /\ WF_vars(AfterFindOneAndUpdate(c))

\* callers over a network that may lose the reply of the store
NextNet ==
  \/ Next
  \/ \E c \in Callers : NetworkError(c)

\* callers of the static Counter.generate, with one call less to begin
InitFair ==
  /\ InitStore(1 .. NumCallers, MaxCalls - 1)
  /\ schema = NoSchema
  /\ path = Declared(schema)
  /\ modelName = [c \in DOMAIN pc |-> Str(ModelName)]

SpecNet == InitFair /\ [][NextNet]_vars

FairSpec == InitFair /\ [][Next]_vars /\ Fairness

\* the same with the whole budget of calls
FairSpecAll == Init /\ [][Next]_vars /\ Fairness

\* instances of one model with a sequenceable path, validated; one
\* allocation less than the callers of the static generate may begin
InitV ==
  /\ InitStore(1 .. NumCallers, MaxCalls - 1)
  /\ schema \in Schemas
  /\ path = Declared(schema)
  /\ modelName = [c \in DOMAIN pc |-> Str(ModelName)]

NextV ==
  \/ \E c \in Callers : SequenceValidator(c)
  \/ \E c \in Callers : FindOneAndUpdate(c)
  \/ \E c \in Callers : Upsert(c)
  \/ \E c \in Callers : StoreError(c)
  \/ \E c \in Callers : AfterFindOneAndUpdate(c)
  \/ Tick

SpecV == InitV /\ [][NextV]_vars

\* the same with one more instance and one more call
InitVRace ==
  /\ InitStore(1 .. NumCallers + 1, MaxCalls + 1)
  /\ schema \in Schemas
  /\ path = Declared(schema)
  /\ modelName = [c \in DOMAIN pc |-> Str(ModelName)]

SpecVRace == InitVRace /\ [][NextV]_vars

\* instances of two models whose schemas share one sequenceable path
InitM ==
  /\ InitStore(1 .. NumCallers, MaxCalls)
  /\ schema \in Schemas
  /\ path = Declared(schema)
  /\ modelName = [c \in DOMAIN pc |->
                    IF c = 1 THEN Str(ModelName) ELSE Str(OtherModelName)]

SpecM == InitM /\ [][NextV]_vars

\* the sequenceable options of the test suite and of the README, one by
\* one and together, with functions that come back empty-handed
SchemasF ==
  [namespace : {Undefined, Str(<<"N">>)},
   prefix : {Undefined, Str(<<"V", "I", "P">>), Fn(Str(<<"V">>)),
             Fn(Str(<<>>)), Fn(Undefined)},
   suffix : {Undefined, Str(<<"T", "Z">>), Fn(Str(<<"T", "Z">>)), Fn(Undefined)},
   increment : {Undefined, Num(10)},
   length : {Undefined, Num(1), Num(10)},
   pad : {Undefined, Str(<<"x">>), Str(<<"1">>)},
   separator : {Undefined, Str(<<"-">>)},
   format : {Undefined, FormatFn, Fn(Str(<<>>)), Fn(Undefined),
             Fn(Str(DEFAULT_VALUE))}]

\* one instance, of a model or of a schema without a model name, validated
InitF ==
  /\ InitStore({1}, MaxCalls)
  /\ schema \in SchemasF
  /\ path = Declared(schema)
  /\ modelName \in [DOMAIN pc -> {Str(ModelName), Undefined}]

SpecF == InitF /\ [][NextV]_vars

\* schemas whose prefix and suffix are read from the instance
SchemasI ==
  [namespace : {Undefined},
   prefix : {Undefined, Method("category")},
   suffix : {Undefined, Method("country")},
   increment : {Undefined},
   length : {Undefined, Num(1)},
   pad : {Undefined},
   separator : {Undefined},
   format : {Undefined}]

\* instances of one model that differ in category and country, validated
InitI ==
  /\ InitStore(1 .. NumCallers, MaxCalls)
  /\ schema \in SchemasI
  /\ path = Declared(schema)
  /\ modelName = [c \in DOMAIN pc |-> Str(ModelName)]

SpecI == InitI /\ [][NextV]_vars

\* schemas that set the increment option
SchemasInc ==
  [namespace : {Undefined},
   prefix : {Undefined},
   suffix : {Undefined},
   increment : {Undefined, Num(0), Num(0 - 1), Num(10)},
   length : {Undefined},
   pad : {Undefined},
   separator : {Undefined},
   format : {Undefined}]

\* instances of one model validated under one key
InitInc ==
  /\ InitStore(1 .. NumCallers, MaxCalls)
  /\ schema \in SchemasInc
  /\ path = Declared(schema)
  /\ modelName = [c \in DOMAIN pc |-> Str(ModelName)]

SpecInc == InitInc /\ [][NextV]_vars

\* a String path on which sequenceable is called again and again
InitS ==
  /\ InitStore({1}, MaxSetups)
  /\ schema = NoSchema
  /\ path \in {NewPath(FALSE), NewPath(TRUE)}
  /\ modelName = [c \in DOMAIN pc |-> Str(ModelName)]

NextS == SetSequenceable

SpecS == InitS /\ [][NextS]_vars

(* ------------------------------- claims ------------------------------- *)
\* call j began before call i, which completed first, had completed
Concurrent(i, j) == i < j /\ issued[j].after < i
Sequence(i) == issued[i].counter.sequence
CompletedBy(c) == {i \in DOMAIN issued : issued[i].caller = c}

\* C1: concurrent generate calls on one key (namespace, prefix, suffix) hand
\* pairwise distinct sequence values to their callbacks.
C1_ConcurrentCallsDistinct ==
  \A i, j \in DOMAIN issued :
    (Concurrent(i, j) /\ issued[i].key = issued[j].key)
      => Sequence(i) # Sequence(j)

\* C2: two instances of one model (same key, same options) validated in
\* parallel never end up with the same formatted value in their field.
C2_ParallelInstancesDiffer ==
  \A i, j \in DOMAIN issued :
    (/\ Concurrent(i, j)
     /\ issued[i].caller # issued[j].caller
     /\ issued[i].key = issued[j].key)
      => issued[i].value # issued[j].value

\* C3 as written: with a constant increment, the n-th successful allocation
\* on a row returns SEQUENCE_START + n * increment.
C3_StartPlusNIncrements ==
  \A i \in DOMAIN issued :
    issued[i].increments = {issued[i].increment}
      => Sequence(i) = SEQUENCE_START + issued[i].nth * issued[i].increment

\* C3 as amended: with a constant increment, the n-th successful allocation
\* on a row returns n * increment; the start value is not applied, and the
\* allocation that creates the row returns the bare increment.
C3_NIncrements ==
  \A i \in DOMAIN issued :
    issued[i].increments = {issued[i].increment}
      => Sequence(i) = issued[i].nth * issued[i].increment

C3_Witness ==
  \E i \in DOMAIN issued :
    /\ issued[i].nth = 3
    /\ issued[i].increments = {2}
    /\ Sequence(i) = 6

\* C4: the generate call that creates the row of a fresh key returns its
\* increment k as the sequence (10 for increment 10, 1 for the default), and
\* the default formatter puts <prefix>0001 or <prefix>0010 into the field.
C4_FirstAllocationIsIncrement ==
  \A i \in DOMAIN issued :
    issued[i].nth = 1
      => /\ Sequence(i) = issued[i].increment
         /\ IsUndefined(schema.format)
              => issued[i].value =
                   Str(ToChars(issued[i].key[2])
                         \o (IF Sequence(i) = 10 THEN <<"0", "0", "1", "0">>
                             ELSE <<"0", "0", "0", "1">>))

C4_Witness ==
  \E i \in DOMAIN issued :
    /\ issued[i].nth = 1
    /\ issued[i].increment = 10
    /\ doc[issued[i].caller] = Str(<<"2", "1", "0", "0", "1", "0">>)

\* the sequence values handed out from, or on their way back from, row id
HandedFrom(id) ==
  {Sequence(i) : i \in {k \in DOMAIN issued : issued[k].counter._id = id}}
    \cup {res[c].counter.sequence :
            c \in {k \in Callers : pc[k] = "exec" /\ res[k].counter._id = id}}

\* C5: a completed generate call has had its increment applied to a Counter
\* row exactly once, however many attempts failed before, and the values
\* handed out from a row under a constant increment k are k, 2k, .., n*k
\* without a gap.
C5_AppliedExactlyOnce ==
  /\ \A i \in DOMAIN issued : issued[i].applied = 1
  /\ \A d \in store :
       \A k \in ledger[d._id].increments :
         ledger[d._id].increments = {k}
           => /\ d.sequence = k * ledger[d._id].n
              /\ HandedFrom(d._id) = {k * m : m \in 1 .. ledger[d._id].n}

\* C6: a row is never deleted and its sequence never decreases, and of two
\* generate calls on one key, the second begun after the first completed,
\* the second returns the greater sequence.
C6_Monotonic ==
  [][/\ \A d \in store :
          \E e \in store' : e._id = d._id /\ e.sequence >= d.sequence
     /\ \A i, j \in DOMAIN issued' :
          (i <= issued'[j].after /\ issued'[i].key = issued'[j].key)
            => issued'[i].counter.sequence < issued'[j].counter.sequence]_vars

\* C7: the store holds at most one Counter row per (namespace, prefix,
\* suffix).
C7_OneRowPerKey ==
  \A d, e \in store : Key(d) = Key(e) => d = e

\* C8: a generate call changes no Counter row of another key than its own,
\* and the row it returns is the row of its own key.
C8_KeyIsolation ==
  [][\A d \in store \ store' :
       \E c \in Callers :
         /\ pc[c] = "find"
         /\ pc'[c] = "exec"
         /\ Key(d) = Key(options[c])]_vars

\* C9: a validation pass over a field that is not the placeholder and begins
\* with the resolved prefix resolves true, leaves the field as it is and
\* issues no store operation.
C9_SkipIsInert ==
  [][\A c \in Callers :
       (/\ pc[c] = "idle"
        /\ passes'[c] = passes[c] + 1
        /\ doc[c] # Str(DEFAULT_VALUE)
        /\ StartsWith(ToChars(doc[c]),
                      ToChars(CreatePrefix(schema.prefix, year))))
         => /\ valid'[c] = TRUE
            /\ doc' = doc
            /\ store' = store
            /\ pc' = pc
            /\ calls' = calls]_vars

\* an instance went through two passes and allocated once
C9_Witness ==
  \E c \in Callers :
    /\ passes[c] = 2
    /\ pc[c] = "idle"
    /\ Cardinality(CompletedBy(c)) = 1
    /\ valid[c]
    /\ doc[c] # Str(DEFAULT_VALUE)
    /\ StartsWith(ToChars(doc[c]), ToChars(CreatePrefix(schema.prefix, year)))

\* C10: a second validation pass over an instance that a first pass gave its
\* sequence allocates nothing and leaves the field at the first value, also
\* when the year changed in between.
C10_SecondPassIdempotent ==
  \A c \in Callers :
    /\ Cardinality(CompletedBy(c)) <= 1
    /\ \A i \in CompletedBy(c) : pc[c] = "idle" => doc[c] = issued[i].value

Failed(c) == pc[c] = "exec" /\ (res[c].error \/ res[c].counter._id = 0)

\* the callback of the call caller c began last has run with a counter
Delivered(c) ==
  /\ pc[c] = "idle"
  /\ \E i \in CompletedBy(c) :
       /\ issued[i].after = started[c].after
       /\ issued[i].counter = res[c].counter
       /\ issued[i].counter._id # 0

\* C12: if only finitely many attempts fail, every generate call of every
\* caller eventually invokes its callback with a counter, whatever number of
\* attempts failed before; and an attempt that succeeded is followed by the
\* callback and by no further attempt.
C12_EventuallyDelivered ==
  /\ (<>[](\A c \in 1 .. NumCallers : ~Failed(c)))
       => \A c \in 1 .. NumCallers : (pc[c] # "idle") ~> Delivered(c)
  /\ [][\A c \in 1 .. NumCallers :
          (pc[c] = "exec" /\ ~Failed(c) /\ pc'[c] # pc[c])
            => /\ pc'[c] = "idle"
               /\ Len(issued') = Len(issued) + 1]_vars

\* both callers have a call delivered that was begun while the other's was
\* running, after the store failed an attempt
C12_Witness ==
  /\ errors = MaxErrors
  /\ \A c \in 1 .. NumCallers : Delivered(c)
  /\ \E i \in DOMAIN issued : issued[i].after < i - 1

\* the allocation of instance c succeeded and onSequence runs in this step
OnSequenceRuns(c) ==
  /\ pc[c] = "exec"
  /\ pc'[c] = "idle"
  /\ cb[c] = "onSequence"
  /\ Len(issued') = Len(issued) + 1

\* C13: after a successful allocation the validator resolves false when the
\* field is left empty (the formatter returned '' or undefined) and true
\* when it is left non-empty; the pass ends either way.
C13_EmptyFieldInvalid ==
  [][\A c \in Callers :
       OnSequenceRuns(c)
         => /\ valid'[c] <=> (doc'[c].kind = "string" /\ Len(doc'[c].val) > 0)
            /\ schema.format \in {Fn(Str(<<>>)), Fn(Undefined)}
                 => (~valid'[c] /\ doc'[c] = schema.format.val[1])
            /\ schema.format \in {Undefined, FormatFn} => valid'[c]]_vars

\* a pass ended invalid with an empty string in the field
C13_Witness ==
  \E c \in Callers :
    /\ pc[c] = "idle"
    /\ CompletedBy(c) # {}
    /\ doc[c] = Str(<<>>)
    /\ ~valid[c]

\* the completed passes that went through the default formatter
DefaultFormatted == {i \in DOMAIN issued : IsUndefined(schema.format)}
Padded(i) == PadStart(NumberToString(Sequence(i)), Length, Pad)
NonEmpty(part) == part # <<>>

\* C14: the default formatter joins the prefix, the padded sequence and the
\* suffix with the separator and skips a part that is empty, so that an
\* empty prefix or suffix leaves no separator at either end of the value.
C14_AbsentPartsSkipped ==
  \A i \in DefaultFormatted :
    issued[i].value =
      Str(Join(SelectSeq(<<ToChars(issued[i].counter.prefix), Padded(i),
                           ToChars(issued[i].counter.suffix)>>, NonEmpty),
               Separator))

Contains(s, t) ==
  \E k \in 0 .. Len(s) - Len(t) : SubSeq(s, k + 1, k + Len(t)) = t
IsLiteral(v) == v.kind = "string" /\ v.val # <<>>

\* C15: with the empty separator the default formatter returns the prefix,
\* the padded sequence and the suffix one after the other, "VIP0001" for
\* prefix "VIP", sequence 1, length 4, pad '0' and suffix ""; and the field
\* contains the prefix or suffix the option names.
C15_PrefixPaddedSuffix ==
  \A i \in DefaultFormatted :
    /\ Separator = <<>>
         => issued[i].value =
              Str(ToChars(issued[i].counter.prefix) \o Padded(i)
                    \o ToChars(issued[i].counter.suffix))
    /\ (/\ schema.prefix = Str(<<"V", "I", "P">>)
        /\ issued[i].counter.suffix = Str(<<>>)
        /\ Sequence(i) = 1
        /\ Length = 4 /\ Pad = <<"0">> /\ Separator = <<>>)
         => issued[i].value = Str(<<"V", "I", "P", "0", "0", "0", "1">>)
    /\ IsLiteral(schema.prefix)
         => Contains(ToChars(issued[i].value), schema.prefix.val)
    /\ IsLiteral(schema.suffix)
         => Contains(ToChars(issued[i].value), schema.suffix.val)

\* prefix: 'VIP' alone put VIP0001 into the field
C15_Witness ==
  \E c \in Callers :
    /\ schema.prefix = Str(<<"V", "I", "P">>)
    /\ IsUndefined(schema.format)
    /\ CompletedBy(c) # {}
    /\ doc[c] = Str(<<"V", "I", "P", "0", "0", "0", "1">>)

Digits(i) == NumberToString(Sequence(i))

\* `length` characters: the pad character, then the digits of the sequence
PadThenDigits(i) ==
  [k \in 1 .. Length |->
     IF k <= Length - Len(Digits(i)) THEN Pad[1]
     ELSE Digits(i)[k - (Length - Len(Digits(i)))]]

\* C16: between the prefix and the suffix, the default formatter puts
\* exactly `length` characters, the pad character repeated and then the
\* digits of the sequence, when the digits are at most `length` (nine 'x'
\* and '1' for length 10, pad 'x', sequence 1), and the digits alone, all of
\* them, when they are more.
C16_PaddedToLength ==
  \A i \in DefaultFormatted :
    /\ issued[i].value =
         Str(Join(<<ToChars(issued[i].counter.prefix),
                    IF Len(Digits(i)) <= Length THEN PadThenDigits(i)
                    ELSE Digits(i),
                    ToChars(issued[i].counter.suffix)>>, Separator))
    /\ (schema.length = Num(10) /\ schema.pad = Str(<<"x">>) /\ Sequence(i) = 1)
         => Contains(ToChars(issued[i].value),
                     <<"x", "x", "x", "x", "x", "x", "x", "x", "x", "1">>)

\* length: 10 and pad: 'x' put nine 'x' and '1' after the year
C16_Witness ==
  \E c \in Callers :
    /\ IsUndefined(schema.format)
    /\ CompletedBy(c) # {}
    /\ doc[c] = Str(<<"2", "1", "x", "x", "x", "x", "x", "x", "x", "x", "x", "1">>)

\* the namespace the claim names for the validated instances
ResolvedNamespace(c) ==
  IF IsLiteral(schema.namespace) THEN schema.namespace
  ELSE IF IsLiteral(modelName[c]) THEN modelName[c]
  ELSE Str(SEQUENCE_NAMESPACE)

\* C17: the allocation of a validated instance runs under the namespace
\* option when it is set, else under the model name of the instance, else
\* under the default 'Sequence'; no attempt, and no row, is without a
\* namespace.
C17_NamespaceResolved ==
  /\ \A c \in Callers :
       (pc[c] # "idle" /\ cb[c] = "onSequence")
         => options[c].namespace = ResolvedNamespace(c)
  /\ \A i \in DOMAIN issued :
       /\ issued[i].key[1] = ResolvedNamespace(issued[i].caller)
       /\ issued[i].counter.namespace = ResolvedNamespace(issued[i].caller)
  /\ \A d \in store : IsLiteral(d.namespace)

\* an instance without a model name and without a namespace option was
\* given a sequence of the default namespace
C17_Witness ==
  /\ IsUndefined(schema.namespace)
  /\ \E i \in DOMAIN issued :
       /\ IsUndefined(modelName[issued[i].caller])
       /\ issued[i].counter.namespace = Str(SEQUENCE_NAMESPACE)

\* the prefix the claim names for a pass that begins now
ClaimedPrefix ==
  IF IsFunction(schema.prefix) THEN schema.prefix.val[1]
  ELSE IF IsLiteral(schema.prefix) THEN schema.prefix
  ELSE Str(YearFormat(year))

\* instance c begins a validation pass in this step
PassBegins(c) == pc[c] = "idle" /\ passes'[c] = passes[c] + 1

\* C18: a validation pass resolves one prefix, the literal option, else the
\* result of the prefix function, else the current year, and uses it for
\* the key of the allocation, for the skip check and, through the counter
\* it gets back, in the formatted value.
C18_OnePrefix ==
  [][\A c \in Callers :
       /\ PassBegins(c)
            => /\ pc'[c] = "find" => options'[c].prefix = ClaimedPrefix
               /\ pc'[c] = "idle"
                    <=> (/\ doc[c] # Str(DEFAULT_VALUE)
                         /\ StartsWith(ToChars(doc[c]), ToChars(ClaimedPrefix)))
       /\ OnSequenceRuns(c)
            => /\ res[c].counter.prefix = options[c].prefix
               /\ IsUndefined(schema.format)
                    => StartsWith(ToChars(doc'[c]), ToChars(options[c].prefix))]_vars

\* the suffix the claim names for the validated instances
ClaimedSuffix ==
  IF IsFunction(schema.suffix) THEN schema.suffix.val[1]
  ELSE IF IsLiteral(schema.suffix) THEN schema.suffix
  ELSE Str(<<>>)

\* C19: the allocation of a validated instance runs under the literal
\* suffix option, else under the result of the suffix function, else under
\* the empty string, and in every case under a suffix that is defined: the
\* filter of the store operation constrains the suffix.
C19_SuffixDefined ==
  /\ \A c \in Callers :
       (pc[c] # "idle" /\ cb[c] = "onSequence")
         => /\ options[c].suffix = ClaimedSuffix
            /\ "suffix" \in DOMAIN Criteria(options[c])
  /\ \A i \in DOMAIN issued :
       /\ issued[i].key[3] = ClaimedSuffix
       /\ issued[i].counter.suffix.kind = "string"

\* C20: with a format function, the field gets what that function returns
\* for the counter the allocation returned: <prefix>-<sequence>-<MMDD> with
\* the bare digits of the sequence for the formatter of the test suite, and
\* the constant of a constant function; no padding to `length` and no
\* separator option come into it.
C20_CustomFormatApplied ==
  [][\A c \in Callers :
       (OnSequenceRuns(c) /\ IsFunction(schema.format))
         => /\ schema.format = FormatFn
                 => doc'[c] =
                      Str(ToChars(res[c].counter.prefix) \o <<"-">>
                            \o NumberToString(res[c].counter.sequence)
                            \o <<"-", "0", "1", "0", "1">>)
            /\ schema.format # FormatFn
                 => doc'[c] = schema.format.val[1]]_vars

\* the formatter of the test suite put 21-1-0101 into the field of an
\* instance whose schema also asks for length 10 and separator '-'
C20_Witness ==
  \E c \in Callers :
    /\ schema.format = FormatFn
    /\ schema.length = Num(10)
    /\ schema.separator = Str(<<"-">>)
    /\ CompletedBy(c) # {}
    /\ doc[c] = Str(<<"2", "1", "-", "1", "-", "0", "1", "0", "1">>)

\* C21: from its first attempt to its callback, a generate call keeps the
\* namespace, prefix, suffix and increment it resolved at the first attempt;
\* a retry filters on the same key and applies the same increment, also
\* when the year has changed since the prefix was taken from it.
C21_RetryKeepsOptions ==
  [][\A c \in Callers :
       pc[c] # "idle"
         => /\ options'[c] = options[c]
            /\ (pc'[c] = "find" /\ pc[c] = "exec")
                 => Criteria(options'[c]) = Criteria(options[c])]_vars

\* the only call begun took its prefix from year FirstYear, failed once and
\* is at its second attempt in year LastYear
C21_Witness ==
  \E c \in Callers :
    /\ schema.prefix = Fn(Undefined)
    /\ calls = MaxCalls - 1
    /\ errors = 1
    /\ pc[c] = "find"
    /\ year = LastYear
    /\ options[c].prefix = Str(YearFormat(FirstYear))

\* C22: an attempt that ends in an error, whichever failure it was, has
\* created no Counter row and changed no sequence.
C22_FailedAttemptWritesNothing ==
  [][\A c \in Callers :
       (pc[c] \in {"find", "upsert"} /\ pc'[c] = "exec" /\ res'[c].error)
         => store' = store]_vars

\* C23: a validator invocation changes neither the sequenceable options of
\* the schema nor the options of another invocation; what it resolves
\* depends on the schema options as declared, on its own instance and on
\* the date, whatever other invocations, of this or of another model,
\* resolved before or meanwhile.
C23_NoSharedOptions ==
  [][/\ schema' = schema
     /\ \A c \in Callers :
          PassBegins(c)
            => /\ \A d \in Callers \ {c} : options'[d] = options[d]
               /\ pc'[c] = "find"
                    => options'[c] =
                         [namespace |-> ResolvedNamespace(c),
                          prefix |-> ClaimedPrefix,
                          suffix |-> ClaimedSuffix,
                          increment |-> MergeValue(Num(SEQUENCE_INCREMENT),
                                                   schema.increment)]]_vars

\* instances of the two models were validated at the same time, and each
\* got a sequence of its own model's namespace
C23_Witness ==
  \E i, j \in DOMAIN issued :
    /\ Concurrent(i, j)
    /\ issued[i].key[1] = Str(ModelName)
    /\ issued[j].key[1] = Str(OtherModelName)
    /\ issued[i].key[2] = issued[j].key[2]

\* C24 as written: a validation pass over a field that holds the
\* placeholder 'sequence' always begins an allocation, and no value assigned
\* to the field after a successful allocation is the placeholder.
C24_PlaceholderNeverAssigned ==
  [][\A c \in Callers :
       /\ (PassBegins(c) /\ doc[c] = Str(DEFAULT_VALUE))
            => (pc'[c] = "find" /\ calls' = calls - 1)
       /\ OnSequenceRuns(c) => doc'[c] # Str(DEFAULT_VALUE)]_vars

\* C24 as amended: a validation pass over a field that holds the
\* placeholder always begins an allocation, and no value that the default
\* formatter produces is the placeholder; what a custom format function
\* returns is assigned as it is.
C24_DefaultNeverPlaceholder ==
  [][\A c \in Callers :
       /\ (PassBegins(c) /\ doc[c] = Str(DEFAULT_VALUE))
            => (pc'[c] = "find" /\ calls' = calls - 1)
       /\ (OnSequenceRuns(c) /\ IsUndefined(schema.format))
            => doc'[c] # Str(DEFAULT_VALUE)
       /\ (OnSequenceRuns(c) /\ schema.format = Fn(Str(DEFAULT_VALUE)))
            => doc'[c] = Str(DEFAULT_VALUE)]_vars

\* the placeholder of an instance whose prefix function returns '' was
\* replaced by 0001
C24_Witness ==
  \E c \in Callers :
    /\ schema.prefix = Fn(Str(<<>>))
    /\ IsUndefined(schema.format)
    /\ CompletedBy(c) # {}
    /\ doc[c] = Str(<<"0", "0", "0", "1">>)

\* C25: the callback of a generate call runs at most once: no two completion
\* records belong to one call (a caller and the point at which it began);
\* it runs in the step that follows a successful attempt, and with it the
\* call is over: no attempt follows.
C25_CallbackOnce ==
  [][/\ \A i, j \in DOMAIN issued' :
          (/\ issued'[i].caller = issued'[j].caller
           /\ issued'[i].after = issued'[j].after) => i = j
     /\ \A c \in Callers :
          /\ (pc[c] = "exec" /\ ~Failed(c) /\ pc'[c] # pc[c])
               => (/\ Len(issued') = Len(issued) + 1
                   /\ issued'[Len(issued')].caller = c)
          /\ (Len(issued') > Len(issued) /\ issued'[Len(issued')].caller = c)
               => pc'[c] = "idle"]_vars

\* a caller has completed two calls, the store having failed an attempt
C25_Witness ==
  \E c \in Callers :
    /\ pc[c] = "idle"
    /\ Cardinality(CompletedBy(c)) = 2
    /\ errors = MaxErrors

\* the sequence values that successful allocations under key k have
\* returned: to a callback, or to an exec callback that is about to run
ReturnedOn(k) ==
  {Sequence(i) : i \in {j \in DOMAIN issued : issued[j].key = k}}
    \cup {res[c].counter.sequence :
            c \in {e \in Callers : /\ pc[e] = "exec"
                                   /\ ~Failed(e)
                                   /\ Key(options[e]) = k}}

SetMax(S) == CHOOSE m \in S : \A n \in S : n <= m

\* the keys under which a row is stored or a value was returned
KnownKeys ==
  {Key(d) : d \in store} \cup {issued[i].key : i \in DOMAIN issued}

\* C26: for every key, the sequence stored in the row of the key is the
\* largest value a successful allocation under the key has returned, and
\* nobody holds a value greater than the stored one.
C26_PersistedIsLargestReturned ==
  \A k \in KnownKeys :
    ReturnedOn(k) # {}
      => /\ \E d \in store : Key(d) = k
         /\ \A d \in store : Key(d) = k => d.sequence = SetMax(ReturnedOn(k))

\* the value the formatter of the schema gives for the counter of the i-th
\* completed call
ValueOfSnapshot(i) ==
  IF schema.format = FormatFn
  THEN Str(ToChars(issued[i].counter.prefix) \o <<"-">> \o Digits(i)
             \o <<"-", "0", "1", "0", "1">>)
  ELSE Str(Join(<<ToChars(issued[i].counter.prefix),
                  IF Len(Digits(i)) <= Length THEN PadThenDigits(i)
                  ELSE Digits(i),
                  ToChars(issued[i].counter.suffix)>>, Separator))

\* the call instance c completed last
LastCompletedBy(c) == SetMax(CompletedBy(c))

\* C27: the counter handed to the callback of an instance is the row as
\* that instance's own store operation wrote it, whatever other instances
\* did to the row or were handed meanwhile, and the field of the instance
\* holds the value formatted from that counter.
C27_OwnSnapshot ==
  /\ [][\A c \in Callers :
          /\ (pc[c] \in {"find", "upsert"} /\ pc'[c] = "exec" /\ ~res'[c].error)
               => /\ res'[c].counter \in store' \ store
                  /\ \A d \in Callers \ {c} : res'[d] = res[d]
          /\ (pc[c] = "exec" /\ pc'[c] = "exec") => res'[c] = res[c]
          /\ OnSequenceRuns(c)
               => /\ issued'[Len(issued')].counter = res[c].counter
                  /\ \A d \in Callers \ {c} : doc'[d] = doc[d]]_vars
  /\ [](\A c \in 1 .. NumCallers :
          CompletedBy(c) # {}
            => doc[c] = ValueOfSnapshot(LastCompletedBy(c)))

\* two instances validated at the same time got 210001 and 210002 from
\* one row
C27_Witness ==
  \E i, j \in DOMAIN issued :
    /\ Concurrent(i, j)
    /\ issued[i].counter._id = issued[j].counter._id
    /\ doc[issued[i].caller] = Str(<<"2", "1", "0", "0", "0", "1">>)
    /\ doc[issued[j].caller] = Str(<<"2", "1", "0", "0", "0", "2">>)

\* what the default formatter returns for sequence value s under the key
\* and the options of the i-th completed call
DoFormatOf(i, s) ==
  Str(DoFormat([prefix |-> issued[i].counter.prefix,
                sequence |-> s,
                suffix |-> issued[i].counter.suffix,
                length |-> Length,
                pad |-> Pad,
                separator |-> Separator]))

\* C28: under one key and one set of options, no other
\* sequence value is formatted to the value that a call was given, whatever
\* the pad character and the length are.
C28_FormatInjective ==
  \A i \in DefaultFormatted :
    \A s \in 1 .. MaxSequence :
      s # Sequence(i) => DoFormatOf(i, s) # issued[i].value

\* C29: within one namespace, the default formatter never gives one value
\* to records of two different keys, that is, to records whose prefix or
\* suffix differ.
C29_KeysNeverCoincide ==
  \A i, j \in DefaultFormatted :
    (/\ issued[i].key[1] = issued[j].key[1]
     /\ issued[i].key # issued[j].key)
      => issued[i].value # issued[j].value

\* C30: whatever increment option is passed, every allocation applied an
\* increment of at least 1, so that no two allocations on one row return the
\* same sequence and the row never holds less than a sequence it returned.
C30_IncrementAtLeastOne ==
  /\ \A i \in DOMAIN issued : issued[i].increment >= 1
  /\ \A i, j \in DOMAIN issued :
       (i # j /\ issued[i].counter._id = issued[j].counter._id)
         => Sequence(i) # Sequence(j)
  /\ \A i \in DOMAIN issued : \A d \in store :
       d._id = issued[i].counter._id => d.sequence >= Sequence(i)

\* C31: callers with different increments on one key never drive a call
\* into retrying for ever: the store fails only finitely many operations
\* for other reasons than the unique index (at most MaxErrors), and then
\* every call that was begun completes.
C31_NoEndlessRetry ==
  \A c \in 1 .. NumCallers : (pc[c] # "idle") ~> (pc[c] = "idle")

\* C32: every Counter row in the store has a namespace and a prefix that
\* are defined and not empty, whatever the prefix option or the prefix
\* function produced.
C32_RowsHaveNamespaceAndPrefix ==
  \A d \in store :
    /\ d.namespace.kind = "string" /\ d.namespace.val # <<>>
    /\ d.prefix.kind = "string" /\ d.prefix.val # <<>>

SequenceableValidators ==
  {i \in DOMAIN path.validators : path.validators[i].type = "sequenceable"}

\* C33: however often sequenceable was called on a path, the path holds at
\* most one validator of type 'sequenceable', which is the one created by the
\* last call with optns other than null and undefined; the default of the path
\* is the placeholder once sequenceable was called; the other validators of
\* the path stay.
C33_OneSequenceableValidator ==
  /\ Cardinality(SequenceableValidators) <= 1
  /\ \A i \in SequenceableValidators :
       /\ path.validators[i].validator = path.sequenceableValidator
       /\ path.validators[i].validator.id = path.created
  /\ calls < MaxSetups => path.defaultValue = Str(DEFAULT_VALUE)
  /\ \A i \in DOMAIN path.validators \ SequenceableValidators :
       path.validators[i] = NewPath(TRUE).validators[1]

\* sequenceable was called three times with options, and the path holds the
\* validator of the third call after the one of `required`
C33_Witness ==
  /\ path.created = 4
  /\ Len(path.validators) = 2
  /\ path.validators[2].validator.id = 4
  /\ path.validators[2].validator.options.prefix = Str(<<"V", "I", "P">>)

====
